---- MODULE Spec2Model ----
(***************************************************************************)
(* BatterX device module (packages/modules/devices/batterx/device.py).     *)
(*                                                                         *)
(* A process either hosts one Device (add_component, update) or runs the   *)
(* legacy single-shot entry point read_legacy once on an ad-hoc Device.    *)
(* `components` is the dict Device.components of that Device, kept as the  *)
(* sequence of its entries in insertion order (a Python dict iterates in   *)
(* insertion order, and overwriting a key keeps the key's position).       *)
(* Spec and SpecLive are that single-threaded process.  SpecDevices has    *)
(* two Devices with a host thread each, SpecThreads two host threads on    *)
(* one Device; their state is device_components and threads.               *)
(***************************************************************************)
EXTENDS Integers, Sequences, FiniteSets

\* ---------------------------------------------------------------- bounds
MaxId == 2            \* component ids handed to Device.add_component: 0..MaxId
MaxComponents == 2    \* largest component collection of the hosted Device
NumPayloads == 2      \* distinct documents the endpoint may answer with
MultiMaxId == 1       \* several Devices or threads: component ids 0..MultiMaxId
MultiMaxComponents == 2 \* several Devices or threads: largest collection

\* ------------------------------------------------------ program constants
LegacyCounterId == 0
LegacyBatId == 3
LegacyExternalInverterId == 4
NoneId == 0 - 1       \* num = None
NoPayload == 0        \* resp_json not bound

Ids == 0..MaxId
Payloads == 1..NumPayloads
LegacyNums == {NoneId, 0, 1, 3}

\* the class table holding external_inverter as well
COMPONENT_TYPE_TO_CLASS_WithExternal == <<"bat", "counter", "inverter", "external_inverter">>

\* Device.COMPONENT_TYPE_TO_CLASS.keys(), in declaration order
COMPONENT_TYPE_TO_CLASS == <<"bat", "counter", "inverter">>
\* COMPONENT_TYPE_TO_MODULE.keys(), in declaration order
COMPONENT_TYPE_TO_MODULE == <<"bat", "counter", "inverter", "external_inverter">>

Range(s) == {s[i] : i \in 1..Len(s)}

NoTag == "<no type>"
Tags == Range(COMPONENT_TYPE_TO_MODULE) \cup {"foo"}

\* str(id)
Str(id) ==
  IF id = NoneId THEN "None"
  ELSE <<"0", "1", "2", "3", "4", "5", "6", "7", "8", "9">>[id + 1]

\* "component" + str(component_config.id)
KeyOf(id) == <<"component", Str(id)>>
NoKey == <<"-", "-">>

\* exceptions: kind, the offending type tag, and the tags the message lists
NoExc == [kind |-> "none", tag |-> NoTag, allowed |-> <<>>]
KeyError(tag) == [kind |-> "KeyError", tag |-> tag, allowed |-> <<>>]
ConfigError(tag) == [kind |-> "ConfigError", tag |-> tag, allowed |-> <<>>]
ComponentInitError(tag) == [kind |-> "ComponentInitError", tag |-> tag, allowed |-> <<>>]
IllegalComponentType(tag, allowed) ==
  [kind |-> "illegal component type", tag |-> tag, allowed |-> allowed]

FetchFailures == {"ConnectionError", "Timeout", "JSONDecodeError"}

\* component configurations handed to add_component.  form: a raw dict, a
\* raw dict without the "type" key, or an already typed setup object.
\* normalizable: dataclass_from_dict accepts it.  constructs: the component
\* class constructor accepts it.
\* read_legacy(component_type, ip_address, num, evu_counter, bat_module,
\* ext_inverter); evu_counter stands for evu_counter == "bezug_batterx",
\* bat_module for bat_module == "speicher_batterx"
LegacyArgs ==
  [component_type : Tags, num : LegacyNums, evu_counter : BOOLEAN,
   bat_module : BOOLEAN, ext_inverter : {0, 1}]
NoArgs ==
  [component_type |-> NoTag, num |-> NoneId, evu_counter |-> FALSE,
   bat_module |-> FALSE, ext_inverter |-> 0]

Configs ==
  [type : Tags, id : Ids, form : {"dict", "dict_without_type", "dataclass"},
   normalizable : BOOLEAN, constructs : BOOLEAN]

VARIABLES
  components,  \* Device.components: sequence of [key, type, id, cls]
  pc,          \* position of the process
  mode,        \* "update" (Device.update) or "legacy" (read_legacy)
  args,        \* arguments of read_legacy
  slots,       \* keys of the update slots acquired at Enter
  resp_json,   \* payload of this cycle
  exc,         \* exception travelling out of the with body ("none" if none)
  idx,         \* position of the dispatch loop
  events,      \* what the operation in progress (or last run) did, in order
  last,        \* the call in progress, or else the last one: [op, tag, exc]
  added,       \* per id, the type of the last add_component that succeeded
  device_components, \* several Devices: per Device, its Device.components
  threads      \* several Devices: per host thread, where it is in its call

vars == <<components, pc, mode, args, slots, resp_json, exc, idx, events, last,
          added, device_components, threads>>

Event(kind, key, val, payload) ==
  [kind |-> kind, key |-> key, val |-> val, payload |-> payload]

Keys(comps) == [i \in 1..Len(comps) |-> comps[i].key]

\* the class table with the classes of counter and inverter exchanged
COMPONENT_CLASS_Exchanged(tag) ==
  CASE tag = "bat" -> "BatterXBat"
    [] tag = "counter" -> "BatterXInverter"
    [] tag = "inverter" -> "BatterXCounter"
    [] OTHER -> "<no class>"

\* Device.COMPONENT_TYPE_TO_CLASS[tag]
COMPONENT_CLASS(tag) ==
  CASE tag = "bat" -> "BatterXBat"
    [] tag = "counter" -> "BatterXCounter"
    [] tag = "inverter" -> "BatterXInverter"
    [] OTHER -> "<no class>"

\* COMPONENT_TYPE_TO_CLASS[component_type](device_id, component_config), as
\* the entry it makes in self.components
Component(cfg) ==
  [key |-> KeyOf(cfg.id), type |-> cfg.type, id |-> cfg.id, cls |-> COMPONENT_CLASS(cfg.type)]

\* self.components[key] = component, always making a new entry
StoreAt_Appends(comps, comp) == Append(comps, comp)

\* self.components[key] = component
StoreAt(comps, comp) ==
  IF \E i \in 1..Len(comps) : comps[i].key = comp.key
  THEN [i \in 1..Len(comps) |-> IF comps[i].key = comp.key THEN comp ELSE comps[i]]
  ELSE Append(comps, comp)

\* add_component storing the component before it checks the class table
add_component_StoresFirst(comps, cfg) ==
  IF cfg.form = "dict_without_type"
  THEN [components |-> comps, exc |-> KeyError("type")]
  ELSE IF cfg.type \notin Range(COMPONENT_TYPE_TO_MODULE)
  THEN [components |-> comps, exc |-> KeyError(cfg.type)]
  ELSE IF ~cfg.normalizable
  THEN [components |-> comps, exc |-> ConfigError(cfg.type)]
  ELSE LET stored == StoreAt(comps, Component(cfg))
       IN IF cfg.type \in Range(COMPONENT_TYPE_TO_CLASS)
          THEN IF cfg.constructs
               THEN [components |-> stored, exc |-> NoExc]
               ELSE [components |-> comps, exc |-> ComponentInitError(cfg.type)]
          ELSE [components |-> stored,
                exc |-> IllegalComponentType(cfg.type, COMPONENT_TYPE_TO_CLASS)]

\* Device.add_component: the collection and the exception after the call
add_component(comps, cfg) ==
  IF cfg.form = "dict_without_type"
  THEN [components |-> comps, exc |-> KeyError("type")]
  ELSE IF cfg.type \notin Range(COMPONENT_TYPE_TO_MODULE)
  THEN [components |-> comps, exc |-> KeyError(cfg.type)]
  ELSE IF ~cfg.normalizable
  THEN [components |-> comps, exc |-> ConfigError(cfg.type)]
  ELSE IF cfg.type \in Range(COMPONENT_TYPE_TO_CLASS)
  THEN IF cfg.constructs
       THEN [components |-> StoreAt(comps, Component(cfg)),
             exc |-> NoExc]
       ELSE [components |-> comps, exc |-> ComponentInitError(cfg.type)]
  ELSE [components |-> comps, exc |-> IllegalComponentType(cfg.type, COMPONENT_TYPE_TO_CLASS)]

\* ------------------------------------------- several Devices and threads
Devices == {"A", "B"}
Threads == {1, 2}
MultiNoComponents == [d \in Devices |-> <<>>]
\* a host thread that has not called anything yet, working on Device d
ThreadInit(d) ==
  [pc |-> "idle", dev |-> d, op |-> "init", raised |-> "none",
   slots |-> <<>>, resp_json |-> NoPayload, exc |-> "none",
   idx |-> 1, size |-> 0, events |-> <<>>]
\* every thread works on Device A
MultiIdle == [t \in Threads |-> ThreadInit("A")]
\* every thread works on a Device of its own
DeviceOf(t) == IF t = 1 THEN "A" ELSE "B"
MultiOwnDevice == [t \in Threads |-> ThreadInit(DeviceOf(t))]
MultiConfigs ==
  [type : {"bat", "external_inverter"}, id : 0..MultiMaxId, form : {"dataclass"},
   normalizable : {TRUE}, constructs : {TRUE}]

\* the ids a component may carry
AllIds ==
  Ids \cup LegacyNums \cup {LegacyCounterId, LegacyBatId, LegacyExternalInverterId}

NeverAdded == [id \in AllIds |-> NoTag]

\* the record of successful add_component calls, after one more call
RecordAdd(g, r, type, id) == IF r.exc = NoExc THEN [g EXCEPT ![id] = type] ELSE g

Init ==
  /\ components = <<>>
  /\ pc = "idle"
  /\ mode = "update"
  /\ args = NoArgs
  /\ slots = <<>>
  /\ resp_json = NoPayload
  /\ exc = "none"
  /\ idx = 1
  /\ events = <<>>
  /\ last = [op |-> "init", tag |-> NoTag, exc |-> NoExc]
  /\ added = NeverAdded
  /\ device_components = MultiNoComponents
  /\ threads = MultiIdle

ResetCycle ==
  /\ slots' = <<>>
  /\ resp_json' = NoPayload
  /\ exc' = "none"
  /\ idx' = 1

Hosting == pc = "idle" /\ last.op # "read_legacy"

\* the host calls Device.add_component(cfg)
AddComponent ==
  \E cfg \in Configs :
    LET r == add_component(components, cfg) IN
      /\ Hosting
      /\ Len(r.components) <= MaxComponents
      /\ components' = r.components
      /\ last' = [op |-> "add_component",
                  tag |-> IF cfg.form = "dict_without_type" THEN NoTag ELSE cfg.type,
                  exc |-> r.exc]
      /\ events' = <<>>
      /\ ResetCycle
      /\ UNCHANGED <<pc, mode, args>>
      /\ added' = RecordAdd(added, r, cfg.type, cfg.id)
      /\ UNCHANGED <<device_components, threads>>

\* _add_component(dev, component_type, num)
_add_component(comps, component_type, num) ==
  IF component_type \in Range(COMPONENT_TYPE_TO_MODULE)
  THEN add_component(comps, [type |-> component_type, id |-> num, form |-> "dataclass",
                             normalizable |-> TRUE, constructs |-> TRUE])
  ELSE [components |-> comps,
        exc |-> IllegalComponentType(component_type, COMPONENT_TYPE_TO_MODULE)]

\* read_legacy up to the with statement: the ad-hoc Device's collection, and
\* the exception that ended the setup (NoExc if none)
read_legacy_setup(a) ==
  LET r1 == _add_component(<<>>, a.component_type, a.num)
      r2 == IF r1.exc = NoExc /\ a.evu_counter
            THEN _add_component(r1.components, "counter", LegacyCounterId)
            ELSE r1
      r3 == IF r2.exc = NoExc /\ a.bat_module
            THEN _add_component(r2.components, "bat", LegacyBatId)
            ELSE r2
  IN r3

\* the successful add_component calls of read_legacy up to the with statement
read_legacy_added(a) ==
  LET r1 == _add_component(<<>>, a.component_type, a.num)
      g1 == RecordAdd(NeverAdded, r1, a.component_type, a.num)
      r2 == _add_component(r1.components, "counter", LegacyCounterId)
      g2 == IF r1.exc = NoExc /\ a.evu_counter
            THEN RecordAdd(g1, r2, "counter", LegacyCounterId)
            ELSE g1
      c2 == IF r1.exc = NoExc /\ a.evu_counter THEN r2 ELSE r1
      r3 == _add_component(c2.components, "bat", LegacyBatId)
  IN IF c2.exc = NoExc /\ a.bat_module
     THEN RecordAdd(g2, r3, "bat", LegacyBatId)
     ELSE g2

\* MultiComponentUpdateContext, Enter: one update slot per component
AcquireSlots(comps) == Keys(comps)

\* MultiComponentUpdateContext, Exit: what the slot reports
SlotReport(captured) == IF captured = "none" THEN "success" ELSE captured

\* MultiComponentUpdateContext, Exit: cycle-time errors are contained
ExitSuppresses == TRUE

\* Device.update fetching before it enters the with statement
UpdateBegin_FetchFirst ==
  \E p \in Payloads :
    /\ Hosting
    /\ components # <<>>
    /\ mode' = "update"
    /\ pc' = "enter"
    /\ events' = <<Event("fetch", NoKey, "ok", p)>>
    /\ last' = [op |-> "update", tag |-> NoTag, exc |-> NoExc]
    /\ slots' = <<>>
    /\ resp_json' = p
    /\ exc' = "none"
    /\ idx' = 1
    /\ UNCHANGED <<components, args>>
    /\ UNCHANGED <<added, device_components, threads>>

\* Device.update without the test `if self.components`
UpdateBegin_NoGuard ==
  /\ Hosting
  /\ mode' = "update"
  /\ pc' = "enter"
  /\ events' = <<>>
  /\ last' = [op |-> "update", tag |-> NoTag, exc |-> NoExc]
  /\ ResetCycle
  /\ UNCHANGED <<components, args>>
  /\ UNCHANGED <<added, device_components, threads>>

\* Device.update with components configured, up to the with statement
UpdateBegin ==
  /\ Hosting
  /\ components # <<>>
  /\ mode' = "update"
  /\ pc' = "enter"
  /\ events' = <<>>
  /\ last' = [op |-> "update", tag |-> NoTag, exc |-> NoExc]
  /\ ResetCycle
  /\ UNCHANGED <<components, args>>
  /\ UNCHANGED <<added, device_components, threads>>

\* Device.update without components: the warning, and return
UpdateNotConfigured ==
  /\ Hosting
  /\ components = <<>>
  /\ mode' = "update"
  /\ events' = <<Event("warning", NoKey, "not configured", NoPayload)>>
  /\ last' = [op |-> "update", tag |-> NoTag, exc |-> NoExc]
  /\ ResetCycle
  /\ UNCHANGED <<components, pc, args>>
  /\ UNCHANGED <<added, device_components, threads>>

\* read_legacy up to the with statement, the setup succeeding
LegacyBegin ==
  \E a \in LegacyArgs :
    LET r == read_legacy_setup(a) IN
      /\ pc = "idle"
      /\ last.op = "init"
      /\ r.exc = NoExc
      /\ components' = r.components
      /\ args' = a
      /\ mode' = "legacy"
      /\ pc' = "enter"
      /\ events' = <<>>
      /\ last' = [op |-> "read_legacy", tag |-> a.component_type, exc |-> NoExc]
      /\ ResetCycle
      /\ added' = read_legacy_added(a)
      /\ UNCHANGED <<device_components, threads>>

\* read_legacy, the setup raising: the exception leaves read_legacy
LegacyAbort ==
  \E a \in LegacyArgs :
    LET r == read_legacy_setup(a) IN
      /\ pc = "idle"
      /\ last.op = "init"
      /\ r.exc # NoExc
      /\ components' = r.components
      /\ args' = a
      /\ mode' = "legacy"
      /\ last' = [op |-> "read_legacy", tag |-> a.component_type, exc |-> r.exc]
      /\ events' = <<>>
      /\ ResetCycle
      /\ UNCHANGED pc
      /\ added' = read_legacy_added(a)
      /\ UNCHANGED <<device_components, threads>>

\* with MultiComponentUpdateContext(components):
Enter ==
  /\ pc = "enter"
  /\ slots' = AcquireSlots(components)
  /\ events' = events \o [i \in 1..Len(components) |->
                            Event("acquire", AcquireSlots(components)[i], "slot", NoPayload)]
  /\ pc' = "fetch"
  /\ UNCHANGED <<components, mode, args, resp_json, exc, idx, last>>
  /\ UNCHANGED <<added, device_components, threads>>

\* resp_json = req.get_http_session().get(url, timeout=5).json()
FetchOk ==
  \E p \in Payloads :
    /\ pc = "fetch"
    /\ resp_json' = p
    /\ events' = Append(events, Event("fetch", NoKey, "ok", p))
    /\ pc' = "dispatch"
    /\ idx' = 1
    /\ UNCHANGED <<components, mode, args, slots, exc, last>>
    /\ UNCHANGED <<added, device_components, threads>>

\* a failed fetch swallowed: the loop runs without a payload
FetchFail_Continues ==
  \E e \in FetchFailures :
    /\ pc = "fetch"
    /\ events' = Append(events, Event("fetch", NoKey, e, NoPayload))
    /\ pc' = "dispatch"
    /\ idx' = 1
    /\ UNCHANGED <<components, mode, args, slots, resp_json, exc, last>>
    /\ UNCHANGED <<added, device_components, threads>>

\* the fetch placed outside the with statement: its exception leaves the call
FetchFail_Bypass ==
  \E e \in FetchFailures :
    /\ pc = "fetch"
    /\ events' = Append(events, Event("fetch", NoKey, e, NoPayload))
    /\ exc' = e
    /\ last' = [last EXCEPT !.exc = [kind |-> e, tag |-> NoTag, allowed |-> <<>>]]
    /\ pc' = "idle"
    /\ UNCHANGED <<components, mode, args, slots, resp_json, idx>>
    /\ UNCHANGED <<added, device_components, threads>>

\* the get or the json() raising: the exception leaves the with body
FetchFail ==
  \E e \in FetchFailures :
    /\ pc = "fetch"
    /\ events' = Append(events, Event("fetch", NoKey, e, NoPayload))
    /\ exc' = e
    /\ pc' = "exit"
    /\ UNCHANGED <<components, mode, args, slots, resp_json, idx, last>>
    /\ UNCHANGED <<added, device_components, threads>>

\* the dict iterator raises when the dict's size changed since the loop began
\* (the size at loop begin is the size at Enter)
IterRaises == Len(components) # Len(slots)

InLoop == pc = "dispatch" /\ ~IterRaises /\ idx <= Len(components)

\* read_legacy testing isinstance(component, bat.BatterXBat) alone
CallsUpdate_BatOnly(component) ==
  \/ mode = "update"
  \/ component.cls \in {"BatterXBat"}
  \/ component.cls = "BatterXInverter" /\ args.ext_inverter = 0

\* the loop body calls component.update(resp_json):  always in Device.update;
\* in read_legacy for a bat, a counter, and an inverter when ext_inverter == 0
CallsUpdate(component) ==
  \/ mode = "update"
  \/ component.cls \in {"BatterXBat", "BatterXCounter"}
  \/ component.cls = "BatterXInverter" /\ args.ext_inverter = 0

\* component.update(resp_json) returns
DispatchOk ==
  /\ InLoop
  /\ CallsUpdate(components[idx])
  /\ events' = Append(events, Event("update", components[idx].key, "ok", resp_json))
  /\ idx' = idx + 1
  /\ UNCHANGED <<components, pc, mode, args, slots, resp_json, exc, last>>
  /\ UNCHANGED <<added, device_components, threads>>

\* the loop placed outside the with statement: the exception leaves the call
DispatchRaise_Propagates ==
  /\ InLoop
  /\ CallsUpdate(components[idx])
  /\ events' = Append(events, Event("update", components[idx].key, "ComponentUpdateError", resp_json))
  /\ exc' = "ComponentUpdateError"
  /\ last' = [last EXCEPT !.exc = [kind |-> "ComponentUpdateError", tag |-> NoTag, allowed |-> <<>>]]
  /\ pc' = "idle"
  /\ UNCHANGED <<components, mode, args, slots, resp_json, idx>>
  /\ UNCHANGED <<added, device_components, threads>>

\* component.update(resp_json) raises: the exception leaves the loop and the
\* with body
DispatchRaise ==
  /\ InLoop
  /\ CallsUpdate(components[idx])
  /\ events' = Append(events, Event("update", components[idx].key, "ComponentUpdateError", resp_json))
  /\ exc' = "ComponentUpdateError"
  /\ pc' = "exit"
  /\ UNCHANGED <<components, mode, args, slots, resp_json, idx, last>>
  /\ UNCHANGED <<added, device_components, threads>>

\* read_legacy, the inverter with ext_inverter != 0
LegacyExternal ==
  LET r == _add_component(components, "external_inverter", LegacyExternalInverterId) IN
    /\ InLoop
    /\ ~CallsUpdate(components[idx])
    /\ components' = r.components
    /\ IF r.exc # NoExc
       THEN /\ exc' = r.exc.kind
            /\ pc' = "exit"
            /\ UNCHANGED <<events, idx>>
       ELSE /\ events' = events \o
                  << Event("get_power", components[idx].key, "power", resp_json),
                     Event("get_power", KeyOf(LegacyExternalInverterId), "power_ext", resp_json),
                     Event("publish", KeyOf(args.num), "state", resp_json) >>
            /\ idx' = idx + 1
            /\ UNCHANGED <<pc, exc>>
    /\ UNCHANGED <<mode, args, slots, resp_json, last>>
    /\ added' = RecordAdd(added, r, "external_inverter", LegacyExternalInverterId)
    /\ UNCHANGED <<device_components, threads>>

\* the loop ending one component early
LoopEnd_OffByOne ==
  /\ pc = "dispatch"
  /\ IterRaises \/ idx >= Len(components)
  /\ exc' = IF IterRaises THEN "RuntimeError" ELSE exc
  /\ pc' = "exit"
  /\ UNCHANGED <<components, mode, args, slots, resp_json, idx, events, last>>
  /\ UNCHANGED <<added, device_components, threads>>

\* the loop never finding its end
LoopEnd_Never ==
  /\ pc = "dispatch"
  /\ IterRaises \/ idx > Len(components) + 1
  /\ exc' = IF IterRaises THEN "RuntimeError" ELSE exc
  /\ pc' = "exit"
  /\ UNCHANGED <<components, mode, args, slots, resp_json, idx, events, last>>
  /\ UNCHANGED <<added, device_components, threads>>

\* the loop ends (or its iterator raises)
LoopEnd ==
  /\ pc = "dispatch"
  /\ IterRaises \/ idx > Len(components)
  /\ exc' = IF IterRaises THEN "RuntimeError" ELSE exc
  /\ pc' = "exit"
  /\ UNCHANGED <<components, mode, args, slots, resp_json, idx, events, last>>
  /\ UNCHANGED <<added, device_components, threads>>

\* the with statement is left: every slot reports, and the call returns
Exit ==
  /\ pc = "exit"
  /\ events' = events \o [i \in 1..Len(slots) |->
                            Event("report", slots[i], SlotReport(exc), NoPayload)]
  /\ last' = [last EXCEPT
              !.exc = IF ExitSuppresses THEN NoExc
                      ELSE [kind |-> exc, tag |-> NoTag, allowed |-> <<>>]]
  /\ pc' = "idle"
  /\ UNCHANGED <<components, mode, args, slots, resp_json, exc, idx>>
  /\ UNCHANGED <<added, device_components, threads>>

\* ------------------------------------------------------------ properties

EventsOf(kind) == {i \in DOMAIN events : events[i].kind = kind}
UpdatesOf(key) == {i \in EventsOf("update") : events[i].key = key}
ReportsOf(key) == {i \in EventsOf("report") : events[i].key = key}
RaisedUpdates == {i \in EventsOf("update") : events[i].val # "ok"}
FetchSucceeded == \E i \in EventsOf("fetch") : events[i].val = "ok"
FetchFailed == \E i \in EventsOf("fetch") : events[i].val \in FetchFailures

\* Device.update has returned (or raised) after a cycle that entered the with
UpdateCycleDone == pc = "idle" /\ last.op = "update" /\ components # <<>>
\* a cycle of Device.update or of read_legacy has been entered and left
CycleDone == pc = "idle" /\ last.op \in {"update", "read_legacy"} /\ slots # <<>>

\* C1: in a Device.update cycle over N >= 2 components with a successful
\* fetch, when the update of one component raises, update(payload) is still
\* invoked on every other component of the cycle, wherever the failing
\* component stands in the iteration order.
C1_SiblingsStillUpdated ==
  (UpdateCycleDone /\ Len(components) >= 2 /\ FetchSucceeded /\ RaisedUpdates # {})
    => \A j \in 1..Len(components) :
         \E i \in UpdatesOf(components[j].key) : events[i].payload = resp_json

\* C2: in a Device.update cycle with a successful fetch in which exactly one
\* component's update raises, at Exit only that component's slot is reported
\* as failed, and the slot of every component that succeeded is reported as
\* success.
C2_OnlyFailingSlotFails ==
  (UpdateCycleDone /\ FetchSucceeded /\ Cardinality(RaisedUpdates) = 1)
    => \A j \in 1..Len(components) :
         /\ ReportsOf(components[j].key) # {}
         /\ \A i \in ReportsOf(components[j].key) :
              (events[i].val # "success")
                <=> (\E u \in RaisedUpdates : events[u].key = components[j].key)

\* C3: a Device.update cycle over a non-empty component set whose fetch
\* succeeds and in which no update raises performs exactly one fetch and
\* exactly one update per component, each with the payload that fetch returned.
C3_OneFetchOneUpdateSamePayload ==
  (UpdateCycleDone /\ FetchSucceeded /\ RaisedUpdates = {})
    => /\ Cardinality(EventsOf("fetch")) = 1
       /\ Cardinality(EventsOf("update")) = Len(components)
       /\ \A j \in 1..Len(components) :
            /\ Cardinality(UpdatesOf(components[j].key)) = 1
            /\ \A i \in UpdatesOf(components[j].key) :
                 \A f \in EventsOf("fetch") :
                   events[i].payload = events[f].payload /\ events[f].payload \in Payloads

C3_Witness ==
  /\ UpdateCycleDone /\ FetchSucceeded /\ RaisedUpdates = {}
  /\ Len(components) >= 2
  /\ EventsOf("report") # {}

\* C4: when the fetch of a cycle fails (transport error, timeout, undecodable
\* body), no component's update is invoked in that cycle, and at Exit every
\* component's slot is reported as failed with the fetch failure.
C4_FetchFailureFailsEverySlot ==
  (CycleDone /\ FetchFailed)
    => /\ EventsOf("update") = {}
       /\ \A j \in 1..Len(components) :
            /\ ReportsOf(components[j].key) # {}
            /\ \A i \in ReportsOf(components[j].key) :
                 \A f \in EventsOf("fetch") :
                   events[i].val = events[f].val /\ events[i].val \in FetchFailures

C4_Witness ==
  /\ CycleDone /\ FetchFailed
  /\ Len(components) >= 2
  /\ Cardinality(EventsOf("report")) = Len(components)

\* C5: on every exit path of a cycle (normal completion, fetch failure, a
\* component update failure, any other exception in the cycle body), in
\* Device.update and in read_legacy, every slot acquired at Enter is finalized
\* exactly once and reports success or the captured failure.
C5_EverySlotFinalizedOnce ==
  /\ \A k \in Range(slots) : Cardinality(ReportsOf(k)) <= 1
  /\ \A i \in EventsOf("report") : events[i].key \in Range(slots)
  /\ (pc = "idle" /\ last.op \in {"update", "read_legacy"})
       => \A k \in Range(slots) :
            /\ Cardinality(ReportsOf(k)) = 1
            /\ \A i \in ReportsOf(k) :
                 events[i].val = (IF exc = "none" THEN "success" ELSE exc)

C5_Witness ==
  /\ CycleDone
  /\ mode = "legacy"
  /\ exc = "illegal component type"
  /\ Len(slots) >= 2
  /\ \A k \in Range(slots) : Cardinality(ReportsOf(k)) = 1

\* C6: cycle-time errors are contained: for every component set and every
\* combination of fetch failure and component update failure, Device.update
\* returns normally, and the failure shows only in the reported slots.
C6_UpdateNeverPropagates ==
  (pc = "idle" /\ last.op = "update")
    => /\ last.exc = NoExc
       /\ exc # "none" => \A k \in Range(slots) :
                            \E i \in ReportsOf(k) : events[i].val = exc

C6_Witness ==
  /\ UpdateCycleDone
  /\ exc = "ComponentUpdateError"
  /\ last.exc = NoExc
  /\ EventsOf("report") # {}

Rank(kind) ==
  CASE kind = "acquire" -> 1
    [] kind = "fetch" -> 2
    [] kind = "report" -> 4
    [] OTHER -> 3

\* C7: within one cycle, slot acquisition for all components precedes the
\* fetch, the fetch precedes every update dispatch, and every update dispatch
\* precedes the Exit reporting of any slot.
C7_CycleOrder ==
  /\ \A i, j \in DOMAIN events : i < j => Rank(events[i].kind) <= Rank(events[j].kind)
  /\ EventsOf("fetch") # {}
       => \A c \in Range(components) :
            \E i \in EventsOf("acquire") : events[i].key = c.key
  /\ EventsOf("update") # {} => FetchSucceeded

C7_Witness ==
  /\ CycleDone
  /\ mode = "legacy"
  /\ Len(components) >= 2
  /\ Cardinality(EventsOf("update")) = Len(components)
  /\ Cardinality(EventsOf("report")) = Len(components)

\* C8: a Device.update cycle on a device without components performs no
\* fetch and no update, raises nothing, and ends after the not-yet-configured
\* diagnostic.
C8_EmptyDeviceOnlyWarns ==
  (pc = "idle" /\ last.op = "update" /\ components = <<>>)
    => /\ EventsOf("fetch") = {}
       /\ EventsOf("update") = {}
       /\ last.exc = NoExc
       /\ Len(events) = 1
       /\ events[Len(events)].kind = "warning"

C8_Witness ==
  /\ pc = "idle" /\ last.op = "update" /\ components = <<>>
  /\ EventsOf("warning") # {}

\* C9: for every type tag not registered as a component class of the Device,
\* add_component fails with the unknown-component-type error whose message
\* lists the registered tags, for tags unknown to every table and for tags
\* known only to the configuration-factory table alike.  (Configurations
\* that cannot be normalized are left aside.)
C9_UnregisteredTagIsIllegalType ==
  (pc = "idle" /\ last.op = "add_component"
     /\ last.tag \in Tags \ Range(COMPONENT_TYPE_TO_CLASS)
     /\ last.exc.kind # "ConfigError")
    => last.exc = IllegalComponentType(last.tag, COMPONENT_TYPE_TO_CLASS)

\* C10: an add_component call that fails (unregistered type, configuration
\* that cannot be normalized, constructor raising) leaves the Device's
\* component collection as it was before the call.
C10_FailedAddLeavesCollection ==
  [][ /\ (last'.op = "add_component" /\ last'.exc # NoExc) => components' = components
      /\ (pc = "dispatch" /\ exc' = "illegal component type") => components' = components
    ]_vars

C10_Witness ==
  /\ pc = "idle" /\ last.op = "add_component"
  /\ last.exc.kind = "illegal component type"
  /\ Len(components) >= 2

\* C11: after any sequence of add_component calls, every component of the
\* collection is an instance of the class registered for the type tag its
\* configuration declares, and no unregistered tag has a stored component.
C11_StoredComponentsAreRegistered ==
  \A c \in Range(components) :
    /\ c.type \in {"bat", "counter", "inverter"}
    /\ c.type = "bat" => c.cls = "BatterXBat"
    /\ c.type = "counter" => c.cls = "BatterXCounter"
    /\ c.type = "inverter" => c.cls = "BatterXInverter"
    /\ c.key = KeyOf(c.id)

C11_Witness ==
  /\ pc = "idle" /\ last.op = "add_component"
  /\ last.tag = "external_inverter"
  /\ {c.type : c \in Range(components)} = {"counter", "inverter"}

\* C12: after any sequence of successful add_component calls the collection
\* holds exactly one entry per distinct id added, under key component<id>,
\* and it is the component of the most recent successful call with that id.
C12_OneEntryPerIdLatestWins ==
  /\ \A id \in AllIds :
       LET at == {i \in 1..Len(components) : components[i].id = id} IN
         IF added[id] = NoTag
         THEN at = {}
         ELSE /\ Cardinality(at) = 1
              /\ \A i \in at : /\ components[i].key = KeyOf(id)
                                /\ components[i].type = added[id]
  /\ \A i, j \in 1..Len(components) :
       components[i].key = components[j].key => i = j

C12_Witness ==
  /\ pc = "idle" /\ last.op = "add_component" /\ last.exc = NoExc
  /\ Len(components) >= 2
  /\ components[Len(components)].type # last.tag
  /\ \E i \in 1..Len(components) : components[i].type = last.tag

\* C13: read_legacy for an inverter with the external-inverter flag set and
\* a successful fetch: two fetches occur, the primary and the external
\* inverter power are both extracted and combined, and exactly one derived
\* state is published for the inverter id.
C13_ExternalInverterPublishes ==
  (/\ CycleDone /\ mode = "legacy"
   /\ args.component_type = "inverter" /\ args.ext_inverter # 0
   /\ \E c \in Range(components) : c.cls = "BatterXInverter"
   /\ FetchSucceeded /\ RaisedUpdates = {})
    => /\ Cardinality(EventsOf("fetch")) = 2
       /\ \E i \in EventsOf("get_power") : events[i].val = "power"
       /\ \E i \in EventsOf("get_power") : events[i].val = "power_ext"
       /\ Cardinality(EventsOf("publish")) = 1
       /\ \A i \in EventsOf("publish") : events[i].key = KeyOf(args.num)

\* one cycle of Device.update as a function of the collection and of what
\* fails: fetched is "ok" or the fetch failure, raisedAt the position of the
\* component whose update raises (0: none)
CycleTrace(comps, fetched, payload, raisedAt) ==
  LET n == IF fetched # "ok" THEN 0
           ELSE IF raisedAt = 0 THEN Len(comps) ELSE raisedAt
      captured == IF fetched # "ok" THEN fetched
                  ELSE IF raisedAt = 0 THEN "none" ELSE "ComponentUpdateError"
  IN  [i \in 1..Len(comps) |-> Event("acquire", comps[i].key, "slot", NoPayload)]
      \o << Event("fetch", NoKey, fetched, IF fetched = "ok" THEN payload ELSE NoPayload) >>
      \o [i \in 1..n |->
            Event("update", comps[i].key,
                  IF i = raisedAt THEN "ComponentUpdateError" ELSE "ok", payload)]
      \o [i \in 1..Len(comps) |-> Event("report", comps[i].key, SlotReport(captured), NoPayload)]

CycleTraces(comps) ==
  {CycleTrace(comps, "ok", p, r) : p \in Payloads, r \in 0..Len(comps)}
    \cup {CycleTrace(comps, f, NoPayload, 0) : f \in FetchFailures}

\* C14: with ext_inverter = 0 the cycle of read_legacy is a Device.update
\* cycle on the same component set: for every component set and pattern of
\* fetch and update failures, the same sequence of slot acquisitions, fetch,
\* update invocations and slot reports.
C14_LegacyCycleIsUpdateCycle ==
  (CycleDone /\ (mode = "update" \/ args.ext_inverter = 0))
    => events \in CycleTraces(components)

C14_Witness ==
  /\ CycleDone /\ mode = "legacy" /\ args.ext_inverter = 0
  /\ Len(components) = 3
  /\ \E c \in Range(components) : c.cls = "BatterXInverter"
  /\ \E i \in RaisedUpdates : events[i].key = components[2].key

\* C15: after the setup of read_legacy with the counter flag and/or the
\* battery flag set, for every primary type and id, the ad-hoc device holds
\* the primary component and each flagged component as distinct entries
\* (1 + number of flags set); the primary is never removed or replaced.
C15_FlaggedComponentsBesidePrimary ==
  (mode = "legacy" /\ pc = "enter")
    => /\ Len(components) = 1 + (IF args.evu_counter THEN 1 ELSE 0)
                               + (IF args.bat_module THEN 1 ELSE 0)
       /\ \E c \in Range(components) :
            c.id = args.num /\ c.type = args.component_type
       /\ args.evu_counter =>
            \E c \in Range(components) : c.id = LegacyCounterId /\ c.type = "counter"
       /\ args.bat_module =>
            \E c \in Range(components) : c.id = LegacyBatId /\ c.type = "bat"

InCycle == pc \in {"enter", "fetch", "dispatch", "exit"}

\* C16: every cycle that is started eventually reaches its terminal state
\* (Exit completed, all slots reported), given that the fetch returns or
\* fails within its timeout and every component update returns or raises.
C16_CycleTerminates ==
  InCycle ~> (/\ pc = "idle"
              /\ \A k \in Range(slots) : Cardinality(ReportsOf(k)) = 1)

C16_Witness ==
  /\ pc = "dispatch" /\ idx > 1 /\ idx <= Len(components)

\* at the end of a cycle the slots reported are, in order, the slots acquired,
\* and they are the slots of the components of the collection
ReportedAreAcquired ==
  CycleDone =>
    /\ slots = Keys(components)
    /\ Cardinality(EventsOf("report")) = Len(slots)
    /\ Cardinality(EventsOf("acquire")) = Len(slots)
    /\ \A i \in 1..Len(slots) :
         /\ events[i].kind = "acquire" /\ events[i].key = slots[i]
         /\ events[Len(events) - Len(slots) + i].kind = "report"
         /\ events[Len(events) - Len(slots) + i].key = slots[i]

\* C19: in a single-threaded run the collection does not change between a
\* cycle's Enter and its Exit, in Device.update and on every path of
\* read_legacy (the external-inverter path included): the components whose
\* slots are reported at Exit are those whose slots were acquired at Enter.
C19_CollectionFixedDuringCycle ==
  /\ [][(pc \in {"fetch", "dispatch", "exit"}) => components' = components]_vars
  /\ []ReportedAreAcquired

C19_Witness ==
  /\ CycleDone /\ mode = "legacy" /\ args.ext_inverter # 0
  /\ Len(components) = 3
  /\ components[1].cls = "BatterXInverter"
  /\ EventsOf("update") = {}
  /\ EventsOf("report") # {}

Next ==
  \/ AddComponent
  \/ UpdateBegin
  \/ UpdateNotConfigured
  \/ LegacyBegin
  \/ LegacyAbort
  \/ Enter
  \/ FetchOk
  \/ FetchFail
  \/ DispatchOk
  \/ DispatchRaise
  \/ LegacyExternal
  \/ LoopEnd
  \/ Exit

Spec == Init /\ [][Next]_vars

\* ------------------------------------------------------------------------
\* Several Devices, several host threads.  A thread runs add_component and
\* update on its Device, one statement at a time; nothing in device.py
\* takes a lock.
\* ------------------------------------------------------------------------

single == <<components, pc, mode, args, slots, resp_json, exc, idx, events, last, added>>

\* self.components as a class attribute: one dict for all Devices
SetComponents_ClassLevel(dc, d, comps) == [x \in Devices |-> comps]

\* self.components = {} in __init__: each Device has its own dict
SetComponents(dc, d, comps) == [dc EXCEPT ![d] = comps]

Mine(t) == device_components[threads[t].dev]

\* thread t calls add_component(cfg) on its Device
TAddComponent(t) ==
  \E cfg \in MultiConfigs :
    LET r == add_component(Mine(t), cfg) IN
      /\ threads[t].pc = "idle"
      /\ Len(r.components) <= MultiMaxComponents
      /\ device_components' = SetComponents(device_components, threads[t].dev, r.components)
      /\ threads' = [threads EXCEPT ![t] =
                       [ThreadInit(threads[t].dev) EXCEPT
                          !.op = "add_component", !.raised = r.exc.kind]]
      /\ UNCHANGED single

\* thread t calls update on its Device, components configured
TUpdateBegin(t) ==
  /\ threads[t].pc = "idle"
  /\ Mine(t) # <<>>
  /\ threads' = [threads EXCEPT ![t] =
                   [ThreadInit(threads[t].dev) EXCEPT !.op = "update", !.pc = "enter"]]
  /\ UNCHANGED <<device_components, single>>

\* thread t calls update on its Device, no components configured
TUpdateNotConfigured(t) ==
  /\ threads[t].pc = "idle"
  /\ Mine(t) = <<>>
  /\ threads' = [threads EXCEPT ![t] =
                   [ThreadInit(threads[t].dev) EXCEPT
                      !.op = "update",
                      !.events = <<Event("warning", NoKey, "not configured", NoPayload)>>]]
  /\ UNCHANGED <<device_components, single>>

\* with MultiComponentUpdateContext(self.components):
TEnter(t) ==
  /\ threads[t].pc = "enter"
  /\ threads' = [threads EXCEPT
       ![t].pc = "fetch",
       ![t].slots = AcquireSlots(Mine(t)),
       ![t].events = [i \in 1..Len(Mine(t)) |->
                        Event("acquire", AcquireSlots(Mine(t))[i], "slot", NoPayload)]]
  /\ UNCHANGED <<device_components, single>>

\* the get returns; the for statement takes its iterator over the dict
TFetchOk(t) ==
  \E p \in Payloads :
    /\ threads[t].pc = "fetch"
    /\ threads' = [threads EXCEPT
         ![t].pc = "dispatch",
         ![t].resp_json = p,
         ![t].idx = 1,
         ![t].size = Len(Mine(t)),
         ![t].events = Append(@, Event("fetch", NoKey, "ok", p))]
    /\ UNCHANGED <<device_components, single>>

TFetchFail(t) ==
  \E e \in FetchFailures :
    /\ threads[t].pc = "fetch"
    /\ threads' = [threads EXCEPT
         ![t].pc = "exit",
         ![t].exc = e,
         ![t].events = Append(@, Event("fetch", NoKey, e, NoPayload))]
    /\ UNCHANGED <<device_components, single>>

\* the dict iterator raises when the dict's size is not what it was when the
\* loop began
TIterRaises(t) == Len(Mine(t)) # threads[t].size

TInLoop(t) ==
  /\ threads[t].pc = "dispatch"
  /\ ~TIterRaises(t)
  /\ threads[t].idx <= Len(Mine(t))

TDispatchOk(t) ==
  /\ TInLoop(t)
  /\ threads' = [threads EXCEPT
       ![t].idx = @ + 1,
       ![t].events = Append(@, Event("update", Mine(t)[threads[t].idx].key, "ok",
                                     threads[t].resp_json))]
  /\ UNCHANGED <<device_components, single>>

TDispatchRaise(t) ==
  /\ TInLoop(t)
  /\ threads' = [threads EXCEPT
       ![t].pc = "exit",
       ![t].exc = "ComponentUpdateError",
       ![t].events = Append(@, Event("update", Mine(t)[threads[t].idx].key,
                                     "ComponentUpdateError", threads[t].resp_json))]
  /\ UNCHANGED <<device_components, single>>

TLoopEnd(t) ==
  /\ threads[t].pc = "dispatch"
  /\ TIterRaises(t) \/ threads[t].idx > Len(Mine(t))
  /\ threads' = [threads EXCEPT
       ![t].pc = "exit",
       ![t].exc = IF TIterRaises(t) THEN "RuntimeError" ELSE @]
  /\ UNCHANGED <<device_components, single>>

\* the with statement is left: every slot reports, and update returns
TExit(t) ==
  /\ threads[t].pc = "exit"
  /\ threads' = [threads EXCEPT
       ![t].pc = "idle",
       ![t].raised = IF ExitSuppresses THEN "none" ELSE threads[t].exc,
       ![t].events = @ \o [i \in 1..Len(threads[t].slots) |->
                             Event("report", threads[t].slots[i],
                                   SlotReport(threads[t].exc), NoPayload)]]
  /\ UNCHANGED <<device_components, single>>

NextMulti ==
  \E t \in Threads :
    \/ TAddComponent(t)
    \/ TUpdateBegin(t)
    \/ TUpdateNotConfigured(t)
    \/ TEnter(t)
    \/ TFetchOk(t)
    \/ TFetchFail(t)
    \/ TDispatchOk(t)
    \/ TDispatchRaise(t)
    \/ TLoopEnd(t)
    \/ TExit(t)

InitSingle ==
  /\ components = <<>>
  /\ pc = "idle"
  /\ mode = "update"
  /\ args = NoArgs
  /\ slots = <<>>
  /\ resp_json = NoPayload
  /\ exc = "none"
  /\ idx = 1
  /\ events = <<>>
  /\ last = [op |-> "init", tag |-> NoTag, exc |-> NoExc]
  /\ added = NeverAdded

\* two Devices, each with a host thread of its own
InitDevices ==
  /\ InitSingle
  /\ device_components = MultiNoComponents
  /\ threads = MultiOwnDevice

\* one Device (A), two host threads calling into it
InitThreads ==
  /\ InitSingle
  /\ device_components = MultiNoComponents
  /\ threads = MultiIdle

SpecDevices == InitDevices /\ [][NextMulti]_vars

SpecThreads == InitThreads /\ [][NextMulti]_vars

\* what belongs to Device d: its collection, and the cycle of its thread
\* (payload, slots, reports)
Side(d) == <<device_components[d], {<<t, threads[t]>> : t \in {u \in Threads : threads[u].dev = d}}>>

\* C17: two Device instances share no mutable state: under any interleaving
\* of add_component calls and update cycles on A and on B, the collection,
\* payloads and slot reports of B are what they are without A's operations
\* (no step of an operation on one Device changes anything of the other).
C17_DevicesShareNothing ==
  [][Side("A")' = Side("A") \/ Side("B")' = Side("B")]_vars

C17_Witness ==
  /\ threads[1].dev = "A" /\ threads[2].dev = "B"
  /\ threads[1].pc = "dispatch" /\ threads[1].idx = 2
  /\ threads[2].pc = "exit" /\ threads[2].exc = "Timeout"
  /\ Len(device_components["A"]) = 2
  /\ Len(device_components["B"]) = 1

TEventsOf(t, kind) == {i \in DOMAIN threads[t].events : threads[t].events[i].kind = kind}

\* a thread is between the Enter and the Exit of a cycle
TInCycle(t) == threads[t].pc \in {"fetch", "dispatch", "exit"}

\* C18: operations on one Device are serialized: when two update cycles, or
\* an add_component and an update cycle, are invoked concurrently on the
\* same Device, no add_component and no second cycle's Enter takes effect
\* between a cycle's Enter and its Exit, so no component is dispatched or
\* reported without a slot acquired for it in that cycle.
C18_OperationsSerialized ==
  /\ [][\A t \in Threads : TInCycle(t) =>
          /\ device_components'[threads[t].dev] = device_components[threads[t].dev]
          /\ \A u \in Threads \ {t} :
               (threads[u].dev = threads[t].dev /\ threads[u].pc = "enter")
                 => threads'[u].pc = "enter"]_vars
  /\ [](\A t \in Threads :
          \A i \in TEventsOf(t, "update") \cup TEventsOf(t, "report") :
            threads[t].events[i].key \in Range(threads[t].slots))


\* the steps of a cycle are taken: the fetch returns or fails within its
\* timeout, each update returns or raises, and the interpreter goes on
SpecLive ==
  /\ Init /\ [][Next]_vars
  /\ WF_vars(Enter)
  /\ WF_vars(FetchOk \/ FetchFail)
  /\ WF_vars(DispatchOk \/ DispatchRaise)
  /\ WF_vars(LegacyExternal)
  /\ WF_vars(LoopEnd)
  /\ WF_vars(Exit)
====
